---- MODULE Spec2Model ----
(***************************************************************************)
(* Allie chess engine: the time controller (lib/clock.cpp) and the search  *)
(* tree's root lifecycle (lib/tree.h), as state machines.                  *)
(*                                                                         *)
(* Times are milliseconds.  qint64 values are modelled by integers; every  *)
(* value of the model stays below 2^31.                                    *)
(***************************************************************************)
EXTENDS Integers, FiniteSets, Sequences, TLC

VARIABLES
    \* ---- Clock (lib/clock.cpp) ----
    m_isActive, m_whiteTime, m_whiteIncrement, m_blackTime, m_blackIncrement,
    m_moveTime, m_infinite, m_deadline, m_trendFactor, m_materialScore,
    m_info, m_onTheClock,
    m_timer,          \* QElapsedTimer: milliseconds since the last restart()
    timeoutActive,    \* m_timeout: the one-shot QTimer is armed
    timeoutAt,        \* m_timeout: the reading of m_timer at which it is due
    moveOverhead,     \* Options "MoveOverhead"
    clockOp,          \* the Clock operation that produced this state
    lastCalc,         \* how the latest calculateDeadline ran: infinite or timed
    moveTimeWasSet,   \* setMoveTime has been called on this Clock
    \* ---- Tree (lib/tree.h), with the Cache and History it uses ----
    m_root,           \* Node* of the root, Null when there is none
    m_resumePreviousPositionIfPossible,
    nodes,            \* Cache: the node arena, slot -> Node
    nodePositions,    \* Cache: position hash -> Node::Position
    rootGame,         \* History::currentGame(): the current game position
    treeOp,           \* the Tree operation that produced this state
    returned,         \* what the latest embodiedRoot() returned
    treeBefore,       \* the tree as the latest Tree operation found it
    scanLog,          \* what the resume scan of the latest clearRoot() did
    workers           \* the search workers inside embodiedRoot()

clockVars == << m_isActive, m_whiteTime, m_whiteIncrement, m_blackTime,
                m_blackIncrement, m_moveTime, m_infinite, m_deadline,
                m_trendFactor, m_materialScore, m_info, m_onTheClock, m_timer,
                timeoutActive, timeoutAt, moveOverhead, clockOp,
                lastCalc, moveTimeWasSet >>

treeVars == << m_root, m_resumePreviousPositionIfPossible, nodes,
               nodePositions, rootGame, treeOp, returned, treeBefore, scanLog,
              workers >>

vars == << clockVars, treeVars >>

----------------------------------------------------------------------------
(* Bounds and input sets of the Clock model.                               *)

MaxElapsed == 150        \* m_timer is observed up to this reading
MaxTrendFactor == 60     \* cap on the accumulated trend factor

TickMs == 50             \* granularity of the observed passage of time
\* a 46-hour clock (167772170 ms): LongTime / 10 = 2^24 + 1
LongTime == 10 * (2 ^ 24 + 1)

Army == {"White", "Black"}
Trend == {"Better", "Same", "Worse"}

TimeValues == {-1, 50, 200, LongTime}
IncrementValues == {0, 100}
MoveTimeValues == {-1, 50, 300}
MaterialValues == {30, 40, 80}
OverheadValues == {100}
DepthValues == {2, 3}
\* trendDegree is a float in [0, 1]; the model carries it in halves
DegreeValues == {0, 2}

Max(a, b) == IF a >= b THEN a ELSE b
Min(a, b) == IF a <= b THEN a ELSE b

\* C++ integer division truncates towards zero (b > 0)
CDiv(a, b) == IF a >= 0 THEN a \div b ELSE -((-a) \div b)

Pow2(n) == 2 ^ n

----------------------------------------------------------------------------
(* Single-precision arithmetic used by the deadline computation.           *)

\* qint64 -> float: round to nearest, ties to even, 24-bit significand
RoundToUlp(n, ulp) ==
    LET q == n \div ulp
        r == n % ulp
    IN  IF 2 * r < ulp THEN q * ulp
        ELSE IF 2 * r > ulp THEN (q + 1) * ulp
        ELSE IF q % 2 = 0 THEN q * ulp ELSE (q + 1) * ulp

ToFloatNat(n) ==
    IF n < Pow2(24) THEN n
    ELSE LET e == CHOOSE k \in 1..7 : n < Pow2(24 + k) /\ n >= Pow2(23 + k)
         IN  RoundToUlp(n, Pow2(e))

ToFloat(n) == IF n >= 0 THEN ToFloatNat(n) ELSE -ToFloatNat(-n)

\* qRound(float d) for an integral d: int(d + 0.5f) when d >= 0, where the
\* sum is itself rounded to float (a tie between d and d + 1 in [2^23, 2^24));
\* int(d - float(int(d-1)) + 0.5f) + int(d-1) = d when d < 0.
qRoundFloat(d) ==
    IF d >= Pow2(23) /\ d < Pow2(24) /\ d % 2 = 1 THEN d + 1 ELSE d

\* qRound of the float product f * (halves / 2): floor(x + 0.5)
qRoundScaled(f, halves) == (2 * f * halves + 2) \div 4

easingCurve(x) == x

----------------------------------------------------------------------------
(* Clock                                                                    *)

DefaultSearchInfo == [depth |-> -1, trend |-> "Better", trendDegree |-> 0]

SearchInfos == [depth : DepthValues, trend : {"Better", "Worse"},
                trendDegree : DegreeValues]

\* progress reports with a steady evaluation
SteadyInfos == [depth : DepthValues, trend : {"Better"}, trendDegree : {0}]

time(army) == IF army = "White" THEN m_whiteTime ELSE m_blackTime

increment(army) == IF army = "White" THEN m_whiteIncrement ELSE m_blackIncrement

elapsed == m_timer

\* mutant: the deadline compared as a signed number
hasExpiredSigned == m_timer > m_deadline

\* QElapsedTimer::hasExpired(timeout): quint64(elapsed()) > quint64(timeout)
hasExpired ==
    IF m_deadline < 0 THEN FALSE ELSE m_timer > m_deadline

timeToDeadline == IF m_infinite THEN -1 ELSE m_deadline - elapsed

lessThanMoveOverhead == timeToDeadline < moveOverhead

pastMoveOverhead == elapsed > moveOverhead

expectedHalfMovesTillEOGOf(m) ==
    IF m < 20 THEN m + 10
    ELSE IF 20 <= m /\ m <= 60
         THEN qRoundFloat((3 \div 8) * ToFloat(m)) + 22
         ELSE qRoundFloat((5 \div 4) * ToFloat(m)) - 30

expectedHalfMovesTillEOG == expectedHalfMovesTillEOGOf(m_materialScore)

ConstructorMoveTime == 0     \* m_moveTime(false)

ClockInit ==
    /\ m_isActive = FALSE
    /\ m_whiteTime = -1
    /\ m_whiteIncrement = -1
    /\ m_blackTime = -1
    /\ m_blackIncrement = -1
    /\ m_moveTime = ConstructorMoveTime
    /\ m_infinite = FALSE
    /\ m_deadline = 0
    /\ m_trendFactor = 0
    /\ m_materialScore = 0
    /\ m_info = DefaultSearchInfo
    /\ m_onTheClock = "uninitialised"  \* not set by the constructor, and
                                       \* not read before startDeadline
    /\ m_timer = 0
    /\ timeoutActive = FALSE
    /\ timeoutAt = 0
    /\ moveOverhead \in OverheadValues
    /\ clockOp = "Clock"
    /\ lastCalc = "none"
    /\ moveTimeWasSet = FALSE

setTime(army, t) ==
    /\ IF army = "White"
       THEN m_whiteTime' = t /\ UNCHANGED m_blackTime
       ELSE m_blackTime' = t /\ UNCHANGED m_whiteTime
    /\ clockOp' = "set"
    /\ UNCHANGED << m_isActive, m_whiteIncrement, m_blackIncrement, m_moveTime,
                    m_infinite, m_deadline, m_trendFactor, m_materialScore,
                    m_info, m_onTheClock, m_timer, timeoutActive, timeoutAt,
                    moveOverhead, lastCalc, moveTimeWasSet >>
    /\ UNCHANGED treeVars

setIncrement(army, inc) ==
    /\ IF army = "White"
       THEN m_whiteIncrement' = inc /\ UNCHANGED m_blackIncrement
       ELSE m_blackIncrement' = inc /\ UNCHANGED m_whiteIncrement
    /\ clockOp' = "set"
    /\ UNCHANGED << m_isActive, m_whiteTime, m_blackTime, m_moveTime,
                    m_infinite, m_deadline, m_trendFactor, m_materialScore,
                    m_info, m_onTheClock, m_timer, timeoutActive, timeoutAt,
                    moveOverhead, lastCalc, moveTimeWasSet >>
    /\ UNCHANGED treeVars

setInfinite(infinite) ==
    /\ m_infinite' = infinite
    /\ clockOp' = "set"
    /\ UNCHANGED << m_isActive, m_whiteTime, m_whiteIncrement, m_blackTime,
                    m_blackIncrement, m_moveTime, m_deadline, m_trendFactor,
                    m_materialScore, m_info, m_onTheClock, m_timer,
                    timeoutActive, timeoutAt, moveOverhead, lastCalc, moveTimeWasSet >>
    /\ UNCHANGED treeVars

setMoveTime(t) ==
    /\ m_moveTime' = t
    /\ clockOp' = "set"
    /\ moveTimeWasSet' = TRUE
    /\ UNCHANGED << m_isActive, m_whiteTime, m_whiteIncrement, m_blackTime,
                    m_blackIncrement, m_infinite, m_deadline, m_trendFactor,
                    m_materialScore, m_info, m_onTheClock, m_timer,
                    timeoutActive, timeoutAt, moveOverhead, lastCalc >>
    /\ UNCHANGED treeVars

setMaterialScore(score) ==
    /\ m_materialScore' = score
    /\ clockOp' = "set"
    /\ UNCHANGED << m_isActive, m_whiteTime, m_whiteIncrement, m_blackTime,
                    m_blackIncrement, m_moveTime, m_infinite, m_deadline,
                    m_trendFactor, m_info, m_onTheClock, m_timer,
                    timeoutActive, timeoutAt, moveOverhead, lastCalc, moveTimeWasSet >>
    /\ UNCHANGED treeVars

\* mutant: the ideal time is used without the cap of the remaining time
selectDeadlineUncapped(moveTime, t, depth, maximum, ideal) ==
    IF moveTime # -1 THEN moveTime - moveOverhead
    ELSE IF t # -1 /\ depth >= 3 THEN ideal
    ELSE IF t # -1 THEN maximum
    ELSE 5000

\* mutant: the time control is consulted before the fixed move time
selectDeadlineTimeFirst(moveTime, t, depth, maximum, ideal) ==
    IF t # -1 /\ depth >= 3 THEN Min(maximum, ideal)
    ELSE IF t # -1 THEN maximum
    ELSE IF moveTime # -1 THEN moveTime - moveOverhead
    ELSE 5000

\* Clock::calculateDeadline, the deadline proper: a fixed move time first,
\* then the time control (capped by the ideal time once the search is deep
\* enough), then the fallback.
selectDeadline(moveTime, t, depth, maximum, ideal) ==
    LET minimumDepth == 3
    IN  IF moveTime # -1 THEN moveTime - moveOverhead
        ELSE IF t # -1 /\ depth >= minimumDepth THEN Min(maximum, ideal)
        ELSE IF t # -1 THEN maximum
        ELSE 5000

\* mutant: the pending timeout is left armed
calculateInfiniteKeepsTimeout ==
    /\ m_deadline' = -1
    /\ lastCalc' = "infinite"
    /\ UNCHANGED << m_trendFactor, timeoutActive, timeoutAt >>

\* Clock::calculateDeadline with m_infinite set
calculateInfinite ==
    /\ m_deadline' = -1
    /\ timeoutActive' = FALSE
    /\ lastCalc' = "infinite"
    /\ UNCHANGED << m_trendFactor, timeoutAt >>

\* mutant: the timeout is armed a whole deadline from now, whatever has
\* elapsed of the move
calculateTimedArmsFromNow(info, army, el) ==
    LET overhead == moveOverhead
        t == time(army)
        inc == increment(army)
        maximum == t - overhead
        ideal == qRoundFloat(easingCurve(
                     ToFloat(CDiv(t, expectedHalfMovesTillEOG) + inc)))
        trendFactor == qRoundScaled(ToFloat(CDiv(maximum, 4)), info.trendDegree)
        accumulated == IF info.trend # "Better"
                       THEN m_trendFactor + trendFactor
                       ELSE CDiv(m_trendFactor, 2)
        deadline == selectDeadline(m_moveTime, t, info.depth, maximum, ideal)
    IN  /\ Max(0, accumulated) <= MaxTrendFactor
        /\ m_trendFactor' = Max(0, accumulated)
        /\ m_deadline' = Max(0, deadline)
        /\ timeoutActive' = TRUE
        /\ timeoutAt' = el + Max(0, deadline)
        /\ lastCalc' = "timed"

\* mutant: the trend factor is stored without the clamp at 0
calculateTimedTrendUnclamped(info, army, el) ==
    LET overhead == moveOverhead
        t == time(army)
        inc == increment(army)
        maximum == t - overhead
        ideal == qRoundFloat(easingCurve(
                     ToFloat(CDiv(t, expectedHalfMovesTillEOG) + inc)))
        trendFactor == qRoundScaled(ToFloat(CDiv(maximum, 4)), info.trendDegree)
        accumulated == IF info.trend # "Better"
                       THEN m_trendFactor + trendFactor
                       ELSE CDiv(m_trendFactor, 2)
        deadline == selectDeadline(m_moveTime, t, info.depth, maximum, ideal)
    IN  /\ accumulated <= MaxTrendFactor
        /\ accumulated >= -MaxTrendFactor
        /\ m_trendFactor' = accumulated
        /\ m_deadline' = Max(0, deadline)
        /\ timeoutActive' = TRUE
        /\ timeoutAt' = el + Max(0, Max(0, deadline) - el)
        /\ lastCalc' = "timed"

\* Clock::calculateDeadline with m_infinite clear, run with the SearchInfo
\* `info` stored, `army` on the clock and the elapsed timer reading `el`.
calculateTimed(info, army, el) ==
    LET overhead == moveOverhead
        t == time(army)
        inc == increment(army)
        maximum == t - overhead
        ideal == qRoundFloat(easingCurve(
                     ToFloat(CDiv(t, expectedHalfMovesTillEOG) + inc)))
        trendFactor == qRoundScaled(ToFloat(CDiv(maximum, 4)), info.trendDegree)
        accumulated == IF info.trend # "Better"
                       THEN m_trendFactor + trendFactor
                       ELSE CDiv(m_trendFactor, 2)
        deadline == selectDeadline(m_moveTime, t, info.depth, maximum, ideal)
    IN  /\ Max(0, accumulated) <= MaxTrendFactor
        /\ m_trendFactor' = Max(0, accumulated)
        /\ m_deadline' = Max(0, deadline)
        /\ timeoutActive' = TRUE
        /\ timeoutAt' = el + Max(0, Max(0, deadline) - el)
        /\ lastCalc' = "timed"

calculateDeadline(info, army, el) ==
    IF m_infinite THEN calculateInfinite ELSE calculateTimed(info, army, el)

\* mutant: the SearchInfo of the previous move is kept
startDeadlineKeepsInfo(army) ==
    /\ m_isActive' = TRUE
    /\ m_info' = m_info
    /\ m_onTheClock' = army
    /\ m_timer' = 0
    /\ calculateDeadline(m_info, army, 0)
    /\ clockOp' = "startDeadline"
    /\ UNCHANGED << m_whiteTime, m_whiteIncrement, m_blackTime,
                    m_blackIncrement, m_moveTime, m_infinite, m_materialScore,
                    moveOverhead, moveTimeWasSet >>
    /\ UNCHANGED treeVars

startDeadline(army) ==
    /\ m_isActive' = TRUE
    /\ m_info' = DefaultSearchInfo
    /\ m_onTheClock' = army
    /\ m_timer' = 0
    /\ calculateDeadline(DefaultSearchInfo, army, 0)
    /\ clockOp' = "startDeadline"
    /\ UNCHANGED << m_whiteTime, m_whiteIncrement, m_blackTime,
                    m_blackIncrement, m_moveTime, m_infinite, m_materialScore,
                    moveOverhead, moveTimeWasSet >>
    /\ UNCHANGED treeVars

\* called by the search while it runs, i.e. after a startDeadline
updateDeadline(info) ==
    /\ m_isActive
    /\ m_info' = info
    /\ calculateDeadline(info, m_onTheClock, elapsed)
    /\ clockOp' = "updateDeadline"
    /\ UNCHANGED << m_isActive, m_whiteTime, m_whiteIncrement, m_blackTime,
                    m_blackIncrement, m_moveTime, m_infinite, m_materialScore,
                    m_onTheClock, m_timer, moveOverhead, moveTimeWasSet >>
    /\ UNCHANGED treeVars

\* time passes on the running elapsed timer
Tick ==
    /\ m_isActive
    /\ m_timer + TickMs <= MaxElapsed
    /\ m_timer' = m_timer + TickMs
    /\ clockOp' = "tick"
    /\ UNCHANGED << m_isActive, m_whiteTime, m_whiteIncrement, m_blackTime,
                    m_blackIncrement, m_moveTime, m_infinite, m_deadline,
                    m_trendFactor, m_materialScore, m_info, m_onTheClock,
                    timeoutActive, timeoutAt, moveOverhead, lastCalc, moveTimeWasSet >>
    /\ UNCHANGED treeVars

\* the armed one-shot QTimer fires and the timeout signal is emitted
timeout ==
    /\ timeoutActive
    /\ m_timer >= timeoutAt
    /\ timeoutActive' = FALSE
    /\ clockOp' = "timeout"
    /\ UNCHANGED << m_isActive, m_whiteTime, m_whiteIncrement, m_blackTime,
                    m_blackIncrement, m_moveTime, m_infinite, m_deadline,
                    m_trendFactor, m_materialScore, m_info, m_onTheClock,
                    m_timer, timeoutAt, moveOverhead, lastCalc, moveTimeWasSet >>
    /\ UNCHANGED treeVars

ClockNext ==
    \/ \E army \in Army, t \in TimeValues : setTime(army, t)
    \/ \E army \in Army, inc \in IncrementValues : setIncrement(army, inc)
    \/ \E b \in BOOLEAN : setInfinite(b)
    \/ \E t \in MoveTimeValues : setMoveTime(t)
    \/ \E m \in MaterialValues : setMaterialScore(m)
    \/ \E army \in Army : startDeadline(army)
    \/ \E info \in SteadyInfos : updateDeadline(info)


\* The Clock with time passing and the one-shot timer firing.
TimerTimeValues == {-1, 200}
TimerMoveTimeValues == {-1, 50}

TimerNext ==
    \/ \E army \in Army, t \in TimerTimeValues : setTime(army, t)
    \/ \E army \in Army, inc \in IncrementValues : setIncrement(army, inc)
    \/ \E b \in BOOLEAN : setInfinite(b)
    \/ \E t \in TimerMoveTimeValues : setMoveTime(t)
    \/ \E army \in Army : startDeadline(army)
    \/ \E info \in SteadyInfos : updateDeadline(info)
    \/ Tick
    \/ timeout


\* The Clock under progress reports with a changing evaluation.
TrendTimeValues == {-1, 50, 203}
TrendInfos == [depth : {3}, trend : {"Better", "Worse"},
               trendDegree : DegreeValues]

TrendNext ==
    \/ \E army \in Army, t \in TrendTimeValues : setTime(army, t)
    \/ \E b \in BOOLEAN : setInfinite(b)
    \/ \E army \in Army : startDeadline(army)
    \/ \E info \in TrendInfos : updateDeadline(info)


----------------------------------------------------------------------------
(* Tree: the root's lifecycle over the node arena.                         *)

ArenaSize == 5           \* capacity of the node arena
MaxBranch == 2           \* most children an expansion attaches
MaxDepth == 3            \* deepest ply below the root the search expands to
NumPositions == 4        \* distinct game positions
TerminalPosition == NumPositions   \* the position that ends the game

Null == 0
Slots == 1..ArenaSize
Positions == 1..NumPositions

\* Position::positionHash(): Zobrist keys, collision-free on Positions
positionHash(p) == 1000 + p

\* cache.used()
used(ns) == Cardinality(DOMAIN ns)

\* node->m_position->position()
positionOf(ns, nps, n) == nps[ns[n].position].position

RECURSIVE subtree(_, _)
\* the node n and all its descendants, along the children vectors
subtree(ns, n) ==
    {n} \cup UNION {subtree(ns, ns[n].children[i]) :
                        i \in 1..Len(ns[n].children)}

RECURSIVE depthOf(_, _)
depthOf(ns, n) == IF ns[n].parent = Null THEN 0 ELSE 1 + depthOf(ns, ns[n].parent)

RemoveFromSeq(seq, x) == SelectSeq(seq, LAMBDA y : y # x)

\* Node::setAsRootNode(): the node leaves its parent and has none
setAsRootNode(ns, n) ==
    LET p == ns[n].parent
    IN  IF p = Null THEN ns
        ELSE [ns EXCEPT ![n].parent = Null,
                        ![p].children = RemoveFromSeq(@, n)]

\* Cache::unlinkNode(n): n and all its descendants leave the transposition
\* sets of their positions and become collectable
unlinkNode(st, n) ==
    LET gone == subtree(st.nodes, n)
    IN  [st EXCEPT
            !.nodes = [x \in DOMAIN st.nodes |->
                          IF x \in gone
                          THEN [st.nodes[x] EXCEPT !.linked = FALSE]
                          ELSE st.nodes[x]],
            !.positions = [h \in DOMAIN st.positions |->
                              [st.positions[h] EXCEPT !.nodes = @ \ gone]]]

\* Cache::resetNodes(): the arena keeps the nodes still linked; positions
\* that no node refers to are dropped
resetNodes(st) ==
    LET kept == {x \in DOMAIN st.nodes : st.nodes[x].linked}
        keptPositions == {h \in DOMAIN st.positions :
                              st.positions[h].nodes \cap kept # {}}
    IN  [st EXCEPT
            !.nodes = [x \in kept |-> st.nodes[x]],
            !.positions = [h \in keptPositions |->
                              [st.positions[h] EXCEPT !.nodes = @ \cap kept]]]

\* Cache::newNode(): the next free slot
newNode(ns) == CHOOSE x \in Slots \ DOMAIN ns :
                   \A y \in Slots \ DOMAIN ns : x <= y

\* mutant: a new NodePosition is stored under the hash whether or not one
\* is there
bindNodeAlwaysNew(st, n, parent, p) ==
    LET h == positionHash(p)
        entry == [position |-> p, nodes |-> {n}]
        node == [parent |-> parent, children |-> << >>, position |-> h,
                 visits |-> 0, isTrueTerminal |-> FALSE, linked |-> TRUE]
    IN  [st EXCEPT
            !.nodes = [x \in DOMAIN st.nodes \cup {n} |->
                          IF x = n THEN node ELSE st.nodes[x]],
            !.positions = [k \in DOMAIN st.positions \cup {h} |->
                              IF k = h THEN entry ELSE st.positions[k]]]

\* Node::initialize + Node::setPosition + Node::Position::initialize for a
\* node at position p: get-or-insert of the position entry under its hash
bindNode(st, n, parent, p) ==
    LET h == positionHash(p)
        entry == IF h \in DOMAIN st.positions
                 THEN [st.positions[h] EXCEPT !.nodes = @ \cup {n}]
                 ELSE [position |-> p, nodes |-> {n}]
        node == [parent |-> parent, children |-> << >>, position |-> h,
                 visits |-> 0, isTrueTerminal |-> FALSE, linked |-> TRUE]
    IN  [st EXCEPT
            !.nodes = [x \in DOMAIN st.nodes \cup {n} |->
                          IF x = n THEN node ELSE st.nodes[x]],
            !.positions = [k \in DOMAIN st.positions \cup {h} |->
                              IF k = h THEN entry ELSE st.positions[k]]]

TreeState == [nodes |-> nodes, positions |-> nodePositions,
              root |-> m_root, found |-> FALSE,
              adopted |-> << >>, staleReads |-> {}]

\* the tree as an operation found it
Snapshot == [root |-> m_root, nodes |-> nodes, positions |-> nodePositions]
NoSnapshot == [root |-> Null, nodes |-> << >>, positions |-> << >>]

NumWorkers == 2           \* search workers sharing the Tree
Workers == 1..NumWorkers

\* a worker outside embodiedRoot()
IdleWorker == [pc |-> "idle", returned |-> Null]

NoScan == [adopted |-> << >>, staleReads |-> {}]

TreeInit ==
    /\ scanLog = NoScan
    /\ workers = [w \in Workers |-> IdleWorker]
    /\ m_root = Null
    /\ m_resumePreviousPositionIfPossible \in BOOLEAN
    /\ nodes = << >>
    /\ nodePositions = << >>
    /\ rootGame \in Positions
    /\ treeOp = "Tree"
    /\ returned = Null
    /\ treeBefore = NoSnapshot

\* the root is a node of the arena (or there is none).  clearRoot and the
\* search read the root's fields; on a root that resetNodes has dropped they
\* would read a recycled node, and the model follows the tree no further
\* than embodiedRoot handing that root out.
rootIsLive == m_root = Null \/ m_root \in DOMAIN nodes

embodiedRoot ==
    /\ treeOp' = "embodiedRoot"
    /\ treeBefore' = Snapshot
    /\ IF m_root # Null
       THEN /\ returned' = m_root
            /\ UNCHANGED << m_root, nodes, nodePositions >>
       ELSE /\ used(nodes) < ArenaSize
            /\ LET n == newNode(nodes)
                   st == bindNode(TreeState, n, Null, rootGame)
               IN  /\ m_root' = n
                   /\ nodes' = st.nodes
                   /\ nodePositions' = st.positions
                   /\ returned' = n
    /\ UNCHANGED << m_resumePreviousPositionIfPossible, rootGame >>
    /\ scanLog' = NoScan
    /\ UNCHANGED workers
    /\ UNCHANGED clockVars

reset ==
    /\ m_root' = Null
    /\ treeOp' = "reset"
    /\ treeBefore' = NoSnapshot
    /\ returned' = Null
    /\ UNCHANGED << m_resumePreviousPositionIfPossible, nodes, nodePositions,
                    rootGame >>
    /\ scanLog' = NoScan
    /\ UNCHANGED workers
    /\ UNCHANGED clockVars

\* mutant: a true terminal is resumed on as well
isResumableTerminalToo(st, grandChild) ==
    positionOf(st.nodes, st.positions, grandChild) = rootGame

\* Tree::clearRoot, the test of a grandchild: it is at the current game
\* position and no true terminal
isResumable(st, grandChild) ==
    /\ positionOf(st.nodes, st.positions, grandChild) = rootGame
    /\ ~st.nodes[grandChild].isTrueTerminal

RECURSIVE resumeScan(_, _, _)
\* Tree::clearRoot, the scan for a grandchild to resume on: `children` is the
\* copy of the old root's children, scanned from index i on.  The break
\* leaves the scan of one child's children only.
resumeScan(children, i, st0) ==
    IF i > Len(children) THEN st0
    ELSE LET st == IF st0.nodes[children[i]].linked THEN st0
                   ELSE [st0 EXCEPT !.staleReads = @ \cup {children[i]}]
             grandChildren == st.nodes[children[i]].children
             hits == {j \in 1..Len(grandChildren) :
                         isResumable(st, grandChildren[j])}
         IN  IF hits = {} THEN resumeScan(children, i + 1, st)
             ELSE LET first == CHOOSE j \in hits : \A k \in hits : j <= k
                      grandChild == grandChildren[first]
                      asRoot == [st EXCEPT
                                    !.nodes = setAsRootNode(@, grandChild)]
                      unlinked == unlinkNode(asRoot, st.root)
                  IN  resumeScan(children, i + 1,
                                 [unlinked EXCEPT
                                     !.root = grandChild,
                                     !.found = TRUE,
                                     !.adopted = Append(@, grandChild)])

\* mutant: a scan that finds nothing leaves the old root in place
clearedRootKeepsMissedRoot ==
    IF m_root = Null THEN TreeState
    ELSE IF ~m_resumePreviousPositionIfPossible
         THEN [unlinkNode(TreeState, m_root) EXCEPT !.root = Null]
    ELSE resumeScan(nodes[m_root].children, 1, TreeState)

\* Tree::clearRoot, up to the call of cache.resetNodes()
clearedRoot ==
    IF m_root = Null THEN TreeState
    ELSE IF ~m_resumePreviousPositionIfPossible
         THEN [unlinkNode(TreeState, m_root) EXCEPT !.root = Null]
    ELSE LET scanned == resumeScan(nodes[m_root].children, 1, TreeState)
         IN  IF scanned.found THEN scanned
             ELSE [unlinkNode(scanned, scanned.root) EXCEPT !.root = Null]

clearRoot ==
    /\ rootIsLive
    /\ LET st == resetNodes(clearedRoot)
       IN  /\ m_root' = st.root
           /\ nodes' = st.nodes
           /\ nodePositions' = st.positions
           /\ scanLog' = [adopted |-> st.adopted,
                          staleReads |-> st.staleReads]
    /\ UNCHANGED workers
    /\ treeOp' = "clearRoot"
    /\ treeBefore' = Snapshot
    /\ returned' = Null
    /\ UNCHANGED << m_resumePreviousPositionIfPossible, rootGame >>
    /\ UNCHANGED clockVars

\* the nodes of the tree hanging from the root
treeNodes == IF m_root = Null \/ m_root \notin DOMAIN nodes THEN {}
             ELSE subtree(nodes, m_root)

RECURSIVE attach(_, _, _, _)
\* the children of `kids` (a sequence of positions) from index i on are
\* allocated, bound to their positions and appended to the parent
attach(st, parent, kids, i) ==
    IF i > Len(kids) THEN st
    ELSE LET n == newNode(st.nodes)
             bound == bindNode(st, n, parent, kids[i])
             visited == [bound EXCEPT !.nodes[n].visits = 1,
                                      !.nodes[parent].children = Append(@, n)]
         IN  attach(visited, parent, kids, i + 1)

RECURSIVE ancestors(_, _)
ancestors(ns, n) ==
    IF ns[n].parent = Null THEN {n} ELSE {n} \cup ancestors(ns, ns[n].parent)

Kids == UNION {[1..k -> Positions] : k \in 1..MaxBranch}

\* one search iteration: the leaf is expanded, its children evaluated and the
\* visits backed up to the root.  A move changes the position, and two moves
\* do not lead back to the position before them.
expand(leaf, kids) ==
    /\ leaf \in treeNodes
    /\ nodes[leaf].children = << >>
    /\ ~nodes[leaf].isTrueTerminal
    /\ depthOf(nodes, leaf) < MaxDepth
    /\ used(nodes) + Len(kids) <= ArenaSize
    /\ \A i, j \in 1..Len(kids) : i # j => kids[i] # kids[j]
    /\ \A i \in 1..Len(kids) :
           /\ kids[i] # positionOf(nodes, nodePositions, leaf)
           /\ nodes[leaf].parent # Null =>
                  kids[i] # positionOf(nodes, nodePositions, nodes[leaf].parent)
    /\ LET st == attach(TreeState, leaf, kids, 1)
           path == ancestors(nodes, leaf)
       IN  /\ nodes' = [x \in DOMAIN st.nodes |->
                           IF x \in path
                           THEN [st.nodes[x] EXCEPT
                                    !.visits = IF x = leaf /\ @ = 0
                                               THEN 1 + Len(kids)
                                               ELSE @ + Len(kids)]
                           ELSE st.nodes[x]]
           /\ nodePositions' = st.positions
    /\ treeOp' = "search"
    /\ treeBefore' = NoSnapshot
    /\ returned' = Null
    /\ UNCHANGED << m_root, m_resumePreviousPositionIfPossible, rootGame >>
    /\ scanLog' = NoScan
    /\ UNCHANGED workers
    /\ UNCHANGED clockVars

\* one search iteration on a leaf whose position ends the game: the node is
\* marked a true terminal and the visit is backed up
visitTerminal(leaf) ==
    /\ leaf \in treeNodes
    /\ leaf # m_root
    /\ nodes[leaf].children = << >>
    /\ ~nodes[leaf].isTrueTerminal
    /\ positionOf(nodes, nodePositions, leaf) = TerminalPosition
    /\ nodes' = [nodes EXCEPT ![leaf].isTrueTerminal = TRUE]
    /\ treeOp' = "search"
    /\ treeBefore' = NoSnapshot
    /\ returned' = Null
    /\ UNCHANGED << m_root, m_resumePreviousPositionIfPossible, nodePositions,
                    rootGame >>
    /\ scanLog' = NoScan
    /\ UNCHANGED workers
    /\ UNCHANGED clockVars

\* moves are played: the current game of the History is at another position
makeMove(p) ==
    /\ p # rootGame
    /\ rootGame' = p
    /\ treeOp' = "search"
    /\ treeBefore' = NoSnapshot
    /\ returned' = Null
    /\ UNCHANGED << m_root, m_resumePreviousPositionIfPossible, nodes,
                    nodePositions >>
    /\ scanLog' = NoScan
    /\ UNCHANGED workers
    /\ UNCHANGED clockVars

\* ---- embodiedRoot() statement by statement, as a worker runs it ----

\* a node as cache.newNode() hands it out, before Node::initialize
RawNode == [parent |-> Null, children |-> << >>, position |-> Null,
            visits |-> 0, isTrueTerminal |-> FALSE, linked |-> TRUE]

WorkerStep ==
    /\ treeOp' = "worker"
    /\ treeBefore' = NoSnapshot
    /\ returned' = Null
    /\ scanLog' = NoScan
    /\ UNCHANGED << m_resumePreviousPositionIfPossible, rootGame >>
    /\ UNCHANGED clockVars

\* if (m_root) return m_root;
embodiedRootTest(w) ==
    /\ workers[w].pc \in {"idle", "done"}
    /\ workers' = [workers EXCEPT ![w] =
                       IF m_root # Null
                       THEN [pc |-> "done", returned |-> m_root]
                       ELSE [pc |-> "newNode", returned |-> Null]]
    /\ UNCHANGED << m_root, nodes, nodePositions >>
    /\ WorkerStep

\* m_root = cache.newNode();
embodiedRootNewNode(w) ==
    /\ workers[w].pc = "newNode"
    /\ used(nodes) < ArenaSize
    /\ LET n == newNode(nodes)
       IN  /\ m_root' = n
           /\ nodes' = [x \in DOMAIN nodes \cup {n} |->
                           IF x = n THEN RawNode ELSE nodes[x]]
    /\ workers' = [workers EXCEPT ![w].pc = "initialize"]
    /\ UNCHANGED nodePositions
    /\ WorkerStep

\* the NodePosition is looked up or created, and m_root initialised and
\* bound to it
embodiedRootInitialize(w) ==
    /\ workers[w].pc = "initialize"
    /\ LET st == bindNode(TreeState, m_root, Null, rootGame)
       IN  /\ nodes' = st.nodes
           /\ nodePositions' = st.positions
    /\ workers' = [workers EXCEPT ![w].pc = "return"]
    /\ UNCHANGED m_root
    /\ WorkerStep

\* return m_root;
embodiedRootReturn(w) ==
    /\ workers[w].pc = "return"
    /\ workers' = [workers EXCEPT ![w] = [pc |-> "done", returned |-> m_root]]
    /\ UNCHANGED << m_root, nodes, nodePositions >>
    /\ WorkerStep

\* the workers of one search, each calling embodiedRoot() on the shared Tree
WorkersNext ==
    \/ \E w \in Workers : embodiedRootTest(w)
    \/ \E w \in Workers : embodiedRootNewNode(w)
    \/ \E w \in Workers : embodiedRootInitialize(w)
    \/ \E w \in Workers : embodiedRootReturn(w)

\* one search iteration on a root that is a leaf
expandRoot(kids) == expand(m_root, kids)

\* the Tree with reset() among its operations; the search expands the root
ResetNext ==
    \/ embodiedRoot
    \/ clearRoot
    \/ reset
    \/ \E kids \in Kids : expandRoot(kids)
    \/ \E p \in Positions : makeMove(p)

TreeNext ==
    \/ embodiedRoot
    \/ clearRoot
    \/ \E leaf \in Slots, kids \in Kids : expand(leaf, kids)
    \/ \E leaf \in Slots : visitTerminal(leaf)
    \/ \E p \in Positions : makeMove(p)

----------------------------------------------------------------------------
(* Specifications: the Clock alone, the Clock with time passing, the Tree. *)

\* a Clock with an empty Tree beside it
ClockSpecInit ==
    /\ ClockInit
    /\ TreeInit
    /\ m_resumePreviousPositionIfPossible
    /\ rootGame = 1

\* a Tree with a newly constructed Clock beside it
TreeSpecInit == TreeInit /\ ClockInit

SpecClock == ClockSpecInit /\ [][ClockNext]_vars

SpecTimer == ClockSpecInit /\ [][TimerNext]_vars

SpecTrend == ClockSpecInit /\ [][TrendNext]_vars

SpecTree == TreeSpecInit /\ [][TreeNext]_vars

SpecReset == TreeSpecInit /\ [][ResetNext]_vars

SpecWorkers == TreeSpecInit /\ [][WorkersNext]_vars

----------------------------------------------------------------------------
(* Properties of the Clock.                                                *)

\* the state right after a deadline computation that found m_infinite clear
AfterTimedCalc ==
    /\ clockOp \in {"startDeadline", "updateDeadline"}
    /\ ~m_infinite

\* remaining time and increment of the side given to the last startDeadline
ClockSideTime == IF m_onTheClock = "White" THEN m_whiteTime ELSE m_blackTime
ClockSideIncrement ==
    IF m_onTheClock = "White" THEN m_whiteIncrement ELSE m_blackIncrement

\* the deadline by strict priority, given the ideal time
PriorityDeadline(ideal) ==
    IF m_moveTime # -1 THEN m_moveTime - moveOverhead
    ELSE IF ClockSideTime # -1 /\ m_info.depth >= 3
         THEN Min(ClockSideTime - moveOverhead, ideal)
    ELSE IF ClockSideTime # -1 THEN ClockSideTime - moveOverhead
    ELSE 5000

\* C1: after every startDeadline or updateDeadline with the infinite flag off
\* the stored deadline is max(0, d), d chosen by strict priority (moveTime,
\* then min(time - overhead, ideal) from depth 3 on, then time - overhead,
\* then 5000), with ideal = (time div expectedHalfMovesTillEOG) + increment.
C1_DeadlineByPriority ==
    AfterTimedCalc =>
        m_deadline = Max(0, PriorityDeadline(
            CDiv(ClockSideTime, expectedHalfMovesTillEOG) + ClockSideIncrement))

\* C2: with no moveTime override and time >= MoveOverhead on the side on the
\* clock, every computed deadline lies in [0, time - overhead].
C2_DeadlineBounds ==
    (AfterTimedCalc /\ m_moveTime = -1 /\ ClockSideTime >= moveOverhead) =>
        (0 <= m_deadline /\ m_deadline <= ClockSideTime - moveOverhead)

\* C2 witness: the low-time case (200 ms left, no increment, overhead 100,
\* material 30) after a progress report of depth 3: the deadline is <= 100.
C2_Witness ==
    /\ clockOp = "updateDeadline" /\ ~m_infinite /\ m_moveTime = -1
    /\ ClockSideTime = 200 /\ ClockSideIncrement = 0 /\ moveOverhead = 100
    /\ m_materialScore = 30 /\ m_info.depth >= 3
    /\ m_deadline <= 100

\* C3 as stated: with a moveTime >= 0 set by setMoveTime the computed
\* deadline equals moveTime - overhead.
C3_MoveTimeExact ==
    (AfterTimedCalc /\ moveTimeWasSet /\ m_moveTime >= 0) =>
        m_deadline = m_moveTime - moveOverhead

\* C3 amended: with a moveTime >= 0 set by setMoveTime the computed deadline
\* equals max(0, moveTime - overhead), whatever time, increment and depth are.
C3_MoveTimeClamped ==
    (AfterTimedCalc /\ moveTimeWasSet /\ m_moveTime >= 0) =>
        m_deadline = Max(0, m_moveTime - moveOverhead)

\* C3 witness: a fixed move time above the overhead wins over a set time
\* control at depth 3.
C3_Witness ==
    /\ clockOp = "updateDeadline" /\ ~m_infinite /\ moveTimeWasSet
    /\ m_moveTime = 300 /\ ClockSideTime = 200 /\ m_info.depth >= 3
    /\ m_deadline = 200

\* C5: on a Clock on which setMoveTime was never called, startDeadline yields
\* max(0, time - overhead) when the time is set and 5000 when it is not.
C5_FreshMoveTimeUnused ==
    (clockOp = "startDeadline" /\ ~m_infinite /\ ~moveTimeWasSet) =>
        m_deadline = (IF ClockSideTime # -1
                      THEN Max(0, ClockSideTime - moveOverhead)
                      ELSE 5000)

\* C4: once a deadline computation ran with the infinite flag set, and until
\* the next computation, hasExpired() is false at every elapsed time, the
\* one-shot timeout is not armed and the timeout signal does not fire.
C4_InfiniteNeverExpires ==
    lastCalc = "infinite" =>
        (~hasExpired /\ ~timeoutActive /\ clockOp # "timeout")

\* C4 witness: time has passed beyond what the timed deadline would have
\* been (move time 50, 200 ms left) after an infinite computation.
C4_Witness ==
    /\ lastCalc = "infinite" /\ clockOp = "tick" /\ m_timer >= 100
    /\ m_moveTime = 50 /\ ClockSideTime = 200
    /\ ~hasExpired /\ ~timeoutActive

\* round(n / d) for n >= 0, d > 0, halves up
RoundDiv(n, d) == (2 * n + d) \div (2 * d)

\* the table of the heuristic with the rational constants 3/8 and 5/4
HalfMovesTable(m) ==
    IF m < 20 THEN m + 10
    ELSE IF m <= 60 THEN RoundDiv(3 * m, 8) + 22
    ELSE RoundDiv(5 * m, 4) - 30

\* C6: expectedHalfMovesTillEOG returns m + 10 (m < 20), round(0.375 m) + 22
\* (20 <= m <= 60) and round(1.25 m) - 30 (m > 60) for the material score m.
C6_HalfMovesTable ==
    expectedHalfMovesTillEOG = HalfMovesTable(m_materialScore)

\* C11 as claimed: hasExpired() is true exactly when the deadline is >= 0
\* and the time elapsed since startDeadline is >= the deadline
C11_HasExpiredAtDeadline ==
    m_isActive => (hasExpired <=> (m_deadline >= 0 /\ elapsed >= m_deadline))

\* C11: hasExpired() is true exactly when the deadline is >= 0 and more
\* than the deadline has elapsed since startDeadline; it is false up to and
\* at the deadline, and for the infinite (-1) deadline
C11_HasExpiredPastDeadline ==
    m_isActive => (hasExpired <=> (m_deadline >= 0 /\ elapsed > m_deadline))

\* C11 witness: the clock runs past a positive deadline and has expired
C11_Witness ==
    /\ m_isActive
    /\ m_deadline > 0
    /\ elapsed > m_deadline
    /\ hasExpired

\* the timeout is pending for max(0, deadline - elapsed) after every
\* non-infinite deadline computation
TimeoutArmed ==
    (clockOp \in {"startDeadline", "updateDeadline"} /\ lastCalc = "timed") =>
        /\ timeoutActive
        /\ timeoutAt = elapsed + Max(0, m_deadline - elapsed)

\* C12 as claimed: the timeout is armed max(0, deadline - elapsed) ahead by
\* every non-infinite deadline computation, and whenever the timeout signal
\* fires hasExpired() is true
C12_TimeoutAgreesWithHasExpired ==
    /\ TimeoutArmed
    /\ clockOp = "timeout" => hasExpired

\* C12: the timeout is armed max(0, deadline - elapsed) ahead by every
\* non-infinite deadline computation, and whenever the timeout signal fires
\* the deadline is >= 0 and has been reached (elapsed >= deadline);
\* hasExpired() is true then unless elapsed equals the deadline
C12_TimeoutAtDeadline ==
    /\ TimeoutArmed
    /\ clockOp = "timeout" =>
           /\ m_deadline >= 0
           /\ elapsed >= m_deadline
           /\ hasExpired <=> elapsed # m_deadline

\* C12 witness: the timeout armed for a positive deadline has fired, past it
C12_Witness ==
    /\ clockOp = "timeout"
    /\ lastCalc = "timed"
    /\ m_deadline > 0
    /\ elapsed > m_deadline
    /\ ~timeoutActive

\* C13: startDeadline(side) leaves the clock active with the default
\* SearchInfo and elapsed at 0; the only timeout pending is the one armed
\* for the new deadline (none on an infinite clock), and with time set and
\* moveTime unused the deadline is max(0, time - overhead) whatever depth
\* and trend the previous move reported
C13_StartDeadlineClean ==
    clockOp = "startDeadline" =>
        /\ m_isActive
        /\ m_info = DefaultSearchInfo
        /\ elapsed = 0
        /\ IF m_infinite
           THEN ~timeoutActive /\ m_deadline = -1
           ELSE timeoutActive /\ timeoutAt = Max(0, m_deadline)
        /\ (~m_infinite /\ m_moveTime = -1 /\ time(m_onTheClock) # -1) =>
               m_deadline = Max(0, time(m_onTheClock) - moveOverhead)

\* C13 witness: a move has started with 200 ms on the clock and moveTime
\* unused; the deadline is 100 and the timeout is armed for it
C13_Witness ==
    /\ clockOp = "startDeadline"
    /\ ~m_infinite
    /\ m_moveTime = -1
    /\ time(m_onTheClock) = 200
    /\ m_deadline = 100
    /\ timeoutActive
    /\ timeoutAt = 100

\* a step that runs a non-infinite deadline computation
TimedCalcStep ==
    /\ clockOp' \in {"startDeadline", "updateDeadline"}
    /\ lastCalc' = "timed"

\* round((maximum / 4) * trendDegree) in exact arithmetic, halves up, for a
\* trendDegree given in halves
ExactTrendRaw(maximum, halves) == (2 * maximum * halves + 8) \div 16

\* the code's raw trend factor: the quotient truncated, the product and the
\* rounding in single precision
FloatTrendRaw(maximum, halves) ==
    qRoundScaled(ToFloat(CDiv(maximum, 4)), halves)

TrendAccumulated(raw) ==
    Max(0, IF m_info'.trend # "Better"
           THEN m_trendFactor + raw
           ELSE CDiv(m_trendFactor, 2))

\* C14 as claimed: every non-infinite deadline computation stores
\* max(0, trendFactor + raw) if the trend is not Better and
\* max(0, trendFactor / 2) if it is, with
\* raw = round(((time - overhead) / 4) * trendDegree); trendFactor >= 0
C14_TrendFactorExact ==
    /\ [](m_trendFactor >= 0)
    /\ [][TimedCalcStep =>
             m_trendFactor' = TrendAccumulated(
                 ExactTrendRaw(time(m_onTheClock') - moveOverhead,
                               m_info'.trendDegree))]_vars

\* C14: the same with raw = qRound(float((time - overhead) div 4) *
\* trendDegree), the quotient truncated toward zero; trendFactor >= 0 in
\* every reachable state, also with time unset or below overhead
C14_TrendFactorTruncated ==
    /\ [](m_trendFactor >= 0)
    /\ [][TimedCalcStep =>
             m_trendFactor' = TrendAccumulated(
                 FloatTrendRaw(time(m_onTheClock') - moveOverhead,
                               m_info'.trendDegree))]_vars

\* C14 witness: a report of a worse evaluation with time below overhead has
\* left the trend factor at 0
C14_Witness ==
    /\ clockOp = "updateDeadline"
    /\ lastCalc = "timed"
    /\ m_info.trend = "Worse"
    /\ m_info.trendDegree > 0
    /\ time(m_onTheClock) - moveOverhead < 0
    /\ m_trendFactor = 0

----------------------------------------------------------------------------
(* Properties of the Tree.                                                 *)

\* the grandchildren of node r in the tree ns
grandChildrenOf(ns, r) ==
    UNION {{ns[ns[r].children[i]].children[j] :
                j \in 1..Len(ns[ns[r].children[i]].children)} :
           i \in 1..Len(ns[r].children)}

\* the grandchildren of the old root at the current game position
samePositionGrandChildren ==
    IF treeBefore.root = Null THEN {}
    ELSE {g \in grandChildrenOf(treeBefore.nodes, treeBefore.root) :
              positionOf(treeBefore.nodes, treeBefore.positions, g) = rootGame}

\* those of them clearRoot may resume on
resumable == {g \in samePositionGrandChildren :
                  ~treeBefore.nodes[g].isTrueTerminal}

\* the nodes reachable from n; a node that has left the arena still counts
\* itself
reachable(ns, n) == IF n \in DOMAIN ns THEN subtree(ns, n) ELSE {n}

\* n is an arena node without parent, bound to a NodePosition that lists it
initialised(n) ==
    /\ n \in DOMAIN nodes
    /\ nodes[n].linked
    /\ nodes[n].parent = Null
    /\ nodes[n].position \in DOMAIN nodePositions
    /\ n \in nodePositions[nodes[n].position].nodes

\* n has left the arena and every transposition set
collected(n) ==
    /\ n \notin DOMAIN nodes
    /\ \A h \in DOMAIN nodePositions : n \notin nodePositions[h].nodes

\* C7: embodiedRoot() returns a non-null, fully initialised root; a root the
\* tree already has is returned with nothing allocated or modified, otherwise
\* exactly one node is allocated, without parent, bound to the NodePosition
\* of the current position's hash
C7_EmbodiedRootInitialised ==
    treeOp = "embodiedRoot" =>
        /\ returned # Null
        /\ returned = m_root
        /\ initialised(returned)
        /\ IF treeBefore.root # Null
           THEN /\ returned = treeBefore.root
                /\ nodes = treeBefore.nodes
                /\ nodePositions = treeBefore.positions
           ELSE /\ used(nodes) = used(treeBefore.nodes) + 1
                /\ nodes[returned].children = << >>
                /\ nodes[returned].position = positionHash(rootGame)
                /\ nodePositions[positionHash(rootGame)].position = rootGame

\* C8: with resume enabled and a grandchild of the old root at the current
\* game position that is no true terminal, after clearRoot() the root is such
\* a grandchild g, g has no parent, g's subtree is as it was, and every other
\* node of the old tree is unlinked
C8_ResumeSuccess ==
    (/\ treeOp = "clearRoot"
     /\ m_resumePreviousPositionIfPossible
     /\ resumable # {}) =>
        /\ m_root \in resumable
        /\ initialised(m_root)
        /\ \A n \in subtree(treeBefore.nodes, m_root) :
               /\ n \in DOMAIN nodes
               /\ nodes[n].linked
               /\ nodes[n].visits = treeBefore.nodes[n].visits
               /\ nodes[n].isTrueTerminal = treeBefore.nodes[n].isTrueTerminal
               /\ nodes[n].children = treeBefore.nodes[n].children
               /\ nodes[n].position = treeBefore.nodes[n].position
        /\ \A n \in DOMAIN treeBefore.nodes :
               n \notin subtree(treeBefore.nodes, m_root) => collected(n)

C10_ArenaAccounting ==
    treeOp = "clearRoot" =>
        used(nodes) = IF m_root = Null THEN 0
                      ELSE Cardinality(reachable(nodes, m_root))

\* C16: every node of the arena is listed by the one NodePosition stored
\* under its position's hash; an embodiedRoot() that allocates binds the root
\* to the NodePosition already stored under the current position's hash,
\* which keeps its nodes, and creates one only when there is none
C16_RootPositionShared ==
    /\ \A n \in DOMAIN nodes :
           /\ nodes[n].position \in DOMAIN nodePositions
           /\ n \in nodePositions[nodes[n].position].nodes
           /\ positionHash(nodePositions[nodes[n].position].position)
                  = nodes[n].position
    /\ (treeOp = "embodiedRoot" /\ treeBefore.root = Null) =>
           /\ nodes[m_root].position = positionHash(rootGame)
           /\ DOMAIN nodePositions =
                  DOMAIN treeBefore.positions \cup {positionHash(rootGame)}
           /\ \A h \in DOMAIN treeBefore.positions :
                  /\ nodePositions[h].position = treeBefore.positions[h].position
                  /\ treeBefore.positions[h].nodes \subseteq nodePositions[h].nodes

\* C16 witness: embodiedRoot() has allocated a root at a position the cache
\* already held a NodePosition for, which the root now shares
C16_Witness ==
    /\ treeOp = "embodiedRoot"
    /\ treeBefore.root = Null
    /\ positionHash(rootGame) \in DOMAIN treeBefore.positions
    /\ m_root \in nodePositions[positionHash(rootGame)].nodes
    /\ Cardinality(nodePositions[positionHash(rootGame)].nodes) >= 2

\* C17: when workers call embodiedRoot() concurrently on a tree with no
\* root, one node is allocated, every call returns that node, and a
\* returned root is initialised and bound to its NodePosition
C17_ConcurrentEmbodiedRoot ==
    /\ used(nodes) <= 1
    /\ \A w \in Workers :
           workers[w].pc = "done" =>
               /\ workers[w].returned # Null
               /\ initialised(workers[w].returned)
    /\ \A v, w \in Workers :
           (workers[v].pc = "done" /\ workers[w].pc = "done") =>
               workers[v].returned = workers[w].returned

\* C18: a clearRoot() adopts at most one grandchild, the root it leaves is
\* that grandchild, still linked in the arena, and the scan reads the
\* children of no node already unlinked
C18_SingleAdoption ==
    treeOp = "clearRoot" =>
        /\ Len(scanLog.adopted) <= 1
        /\ scanLog.staleReads = {}
        /\ scanLog.adopted # << >> =>
               /\ m_root = scanLog.adopted[1]
               /\ m_root \in DOMAIN nodes
               /\ nodes[m_root].linked

\* C19: whenever embodiedRoot() finds no root, the arena is empty
C19_ArenaEmptyAtAllocation ==
    (treeOp = "embodiedRoot" /\ treeBefore.root = Null) =>
        used(treeBefore.nodes) = 0

\* C20: after a deadline computation on an infinite clock,
\* lessThanMoveOverhead() is false
C20_InfiniteNotShortOfTime ==
    (lastCalc = "infinite" /\ m_infinite) => ~lessThanMoveOverhead

====
